---- MODULE Spec2Model ----
(***************************************************************************)
(* NAV data pull (nav_data_pull_streamlit2.py): the reference table        *)
(* filter, the date-windowed close lookup, the as-of fundamentals lookup   *)
(* and the row loop behind the "Download NAV Data" button.                 *)
(*                                                                         *)
(* Python values are records tagged by k: None, NaN (pandas' missing       *)
(* float) and numbers.  Prices are held in cents, balance-sheet values in  *)
(* units, scaled values in 10^-Decimals millions.  Calendar days are       *)
(* integers; a Timestamp is a day with a time of day.                      *)
(***************************************************************************)
EXTENDS Integers, Sequences, FiniteSets, TLC

VARIABLES reference, df_tickers, target_date, pc, idx, rows,
          fund_name, balance, fundamentals, shares_millions, debt_millions,
          data, fund_price, nav_price

vars == <<reference, df_tickers, target_date, pc, idx, rows,
          fund_name, balance, fundamentals, shares_millions, debt_millions,
          data, fund_price, nav_price>>

---------------------------------------------------------------------------
\* Bounds of the model.

\* Calendar days are 0..MaxDay.
MaxDay == 4

\* Longest reference table.
MaxEntries == 3

---------------------------------------------------------------------------
\* Program constants.

\* timedelta(days=2)
WindowDays == 2

\* 1_000_000
Million == 1000000

\* round(..., 2)
Decimals == 2

---------------------------------------------------------------------------
\* Python and pandas values.

None == [k |-> "None"]

NaN == [k |-> "NaN"]

Num(n) == [k |-> "num", v |-> n]

\* An exception leaving a call.
Raised == [k |-> "raise"]

\* The provider (yfinance) failing: network error, unknown ticker, ...
Fault == [k |-> "fault"]

\* bool(x): None and 0 are false, NaN and every other number are true.
Truthy(x) == x.k = "NaN" \/ (x.k = "num" /\ x.v # 0)

Days == 0..MaxDay

\* Offsets within a day at which a timestamp may fall (0 is midnight).
TimesOfDay == {0, 1}

\* A datetime.date.
Date(d) == [day |-> d]

\* date +/- timedelta(days=n)
DatePlus(date, n) == [day |-> date.day + n]

\* pd.Timestamp(date): midnight of that day.
Timestamp(date) == [day |-> date.day, tod |-> 0]

TsLeq(a, b) == a.day < b.day \/ (a.day = b.day /\ a.tod <= b.tod)

TsLt(a, b) == a.day < b.day \/ (a.day = b.day /\ a.tod < b.tod)

\* strftime('%Y-%m-%d') of a date or a timestamp: the calendar day as a string
\* (held as the day's number), the time of day dropped.
strftime(t) == t.day

\* The provider's reading of a 'YYYY-MM-DD' string: midnight of that day.
ParseDay(str) == [day |-> str, tod |-> 0]

---------------------------------------------------------------------------
\* get_fundamentals_asof

SharesRows == <<"Ordinary Shares Number", "Share Issued">>

DebtRows == <<"Total Debt", "Long Term Debt", "Current Debt">>

EquityRows == <<"Preferred Securities Outside Stock Equity">>

Range(s) == {s[i] : i \in DOMAIN s}

\* Line items a balance sheet may carry: the candidates and one other.
LineItems ==
    {"Ordinary Shares Number", "Share Issued", "Total Debt", "Long Term Debt",
     "Current Debt", "Preferred Securities Outside Stock Equity", "Total Assets"}

\* The early return with outside equity at its later default of 0.
AllNone_ZeroEquity ==
    [shares_outstanding |-> None, total_debt |-> None,
     outside_equity |-> Num(0), report_date |-> None]

AllNone == [shares_outstanding |-> None, total_debt |-> None,
            outside_equity |-> None, report_date |-> None]

\* DataFrame.empty: no rows or no columns.
Empty(frame) == frame.index = {} \/ frame.columns = {}

\* max() of a non-empty set of timestamps.
MaxTs(S) == CHOOSE d \in S : \A e \in S : TsLeq(e, d)

\* FirstInIndex without the break: the last candidate in the index wins.
FirstInIndex_LastWins(rowNames, i, frame, latest, default) ==
    LET present == {j \in i..Len(rowNames) : rowNames[j] \in frame.index} IN
    IF present = {} THEN default
    ELSE LET last == CHOOSE j \in present : \A m \in present : m <= j
         IN frame.cells[<<rowNames[last], latest>>]

\* FirstInIndex with every field starting at None.
FirstInIndex_NoDefault(rowNames, i, frame, latest, default) ==
    LET present == {j \in i..Len(rowNames) : rowNames[j] \in frame.index} IN
    IF present = {} THEN None
    ELSE LET first == CHOOSE j \in present : \A m \in present : j <= m
         IN frame.cells[<<rowNames[first], latest>>]

\* for row in rows: if row in balance.index: x = balance.loc[row, latest]; break
RECURSIVE FirstInIndex(_, _, _, _, _)
FirstInIndex(rowNames, i, frame, latest, default) ==
    IF i > Len(rowNames) THEN default
    ELSE IF rowNames[i] \in frame.index THEN frame.cells[<<rowNames[i], latest>>]
    ELSE FirstInIndex(rowNames, i + 1, frame, latest, default)

\* ValidDates without the d <= as_of_date filter.
ValidDates_All(frame, as_of_date) == frame.columns

\* valid_dates = [d for d in balance.columns if d <= as_of_date]
ValidDates(frame, as_of_date) ==
    {d \in frame.columns : TsLeq(d, Timestamp(as_of_date))}

\* resp is what t.quarterly_balance_sheet gives: a frame, or the provider's
\* fault, which no handler catches.
get_fundamentals_asof(resp, as_of_date) ==
    IF resp = Fault THEN Raised
    ELSE IF Empty(resp) THEN AllNone
    ELSE LET valid_dates == ValidDates(resp, as_of_date) IN
         IF valid_dates = {} THEN AllNone
         ELSE LET latest == MaxTs(valid_dates) IN
              [shares_outstanding |-> FirstInIndex(SharesRows, 1, resp, latest, None),
               total_debt |-> FirstInIndex(DebtRows, 1, resp, latest, None),
               outside_equity |-> FirstInIndex(EquityRows, 1, resp, latest, Num(0)),
               report_date |-> latest]

\* 10^n
RECURSIVE Pow10(_)
Pow10(n) == IF n = 0 THEN 1 ELSE 10 * Pow10(n - 1)

\* n / d rounded to the nearest integer, ties to even (d > 0, n >= 0).
RoundHalfEven(n, d) ==
    LET q == n \div d
        r == n % d
    IN IF 2 * r < d THEN q
       ELSE IF 2 * r > d THEN q + 1
       ELSE IF q % 2 = 0 THEN q ELSE q + 1

\* round(x / 1_000_000, 2) if x else None; the result in 10^-Decimals millions.
ScaleMillions(x) ==
    IF Truthy(x)
    THEN IF x = NaN THEN NaN
         ELSE Num(RoundHalfEven(x.v, Million \div Pow10(Decimals)))
    ELSE None

---------------------------------------------------------------------------
\* get_close_price

\* What yf.Ticker(ticker).history(start, end) gives of the provider's series:
\* the bars from start (midnight) up to, not including, end; a fault raises.
History(resp, start, end) ==
    IF resp = Fault THEN Raised
    ELSE LET kept == {t \in resp.index :
                        TsLeq(ParseDay(start), t) /\ TsLt(t, ParseDay(end))}
         IN [index |-> kept, close |-> [t \in kept |-> resp.close[t]]]

\* get_close_price without its try/except: the fault leaves the call.
get_close_price_uncaught(resp, date, start, end) ==
    LET hist == History(resp, start, end) IN
    IF hist = Raised THEN Raised
    ELSE IF hist.index = {} \/ date \notin {strftime(t) : t \in hist.index} THEN None
    ELSE hist.close[CHOOSE t \in hist.index : strftime(t) = date]

\* get_close_price falling back to the window's last bar when the exact day
\* is missing.
get_close_price_lookback(resp, date, start, end) ==
    LET hist == History(resp, start, end) IN
    IF hist = Raised THEN None
    ELSE IF hist.index = {} THEN None
    ELSE IF date \notin {strftime(t) : t \in hist.index}
         THEN hist.close[CHOOSE t \in hist.index : \A u \in hist.index : TsLeq(u, t)]
    ELSE hist.close[CHOOSE t \in hist.index : strftime(t) = date]

\* The try body's result, or None from the except branch.
get_close_price(resp, date, start, end) ==
    LET hist == History(resp, start, end) IN
    IF hist = Raised THEN None
    ELSE IF hist.index = {} \/ date \notin {strftime(t) : t \in hist.index} THEN None
    ELSE hist.close[CHOOSE t \in hist.index : strftime(t) = date]

---------------------------------------------------------------------------
\* The row loop's arithmetic.

RECURSIVE GCD(_, _)
GCD(a, b) == IF b = 0 THEN a ELSE GCD(b, a % b)

\* a / b of two floats: NaN if either is NaN, else the quotient, as a fraction
\* in lowest terms (b # 0).
Divide(a, b) ==
    IF a = NaN \/ b = NaN THEN NaN
    ELSE LET g == GCD(a.v, b.v) IN [k |-> "ratio", n |-> a.v \div g, d |-> b.v \div g]

\* fund_price / nav_price if fund_price and nav_price else None
Discount(fp, np) == IF Truthy(fp) /\ Truthy(np) THEN Divide(fp, np) ELSE None

\* dict.get(key, default)
DictGet(d, key, default) == IF key \in DOMAIN d THEN d[key] ELSE default

start_date == strftime(DatePlus(target_date, 0 - WindowDays))

end_date == strftime(DatePlus(target_date, WindowDays))

date_str == strftime(target_date)

---------------------------------------------------------------------------
\* The reference table.

\* An empty spreadsheet cell, read by pandas as NaN.
NaNCell == "NaN"

Entry(fund, nav, tag) ==
    [Fund |-> fund, NAV |-> nav, FundType |-> tag, Subcategory |-> NaNCell,
     BroadCategory |-> tag, Region |-> "US"]

\* Rows the workbook may hold: complete ones and ones missing a ticker.
Entries == {Entry("FA", "NA", "Equity"), Entry("FB", "NB", "Bond"),
            Entry("FA", NaNCell, "Equity"), Entry(NaNCell, "NB", "Bond"),
            Entry(NaNCell, NaNCell, "Equity")}

SeqsUpTo(S, n) == UNION {[1..m -> S] : m \in 0..n}

Tables == SeqsUpTo(Entries, MaxEntries)

RECURSIVE SelectSeq2(_, _)
SelectSeq2(s, keep) ==
    IF s = <<>> THEN <<>>
    ELSE IF s[1] \in keep THEN <<s[1]>> \o SelectSeq2(Tail(s), keep)
    ELSE SelectSeq2(Tail(s), keep)

\* dropna on the Fund column alone.
DropNa_FundOnly(table) ==
    SelectSeq2(table, {e \in Range(table) : e.Fund # NaNCell})

\* df_tickers.dropna(subset=["Fund", "NAV"])
DropNa(table) ==
    LET keep == {e \in Range(table) : e.Fund # NaNCell /\ e.NAV # NaNCell}
    IN SelectSeq2(table, keep)

---------------------------------------------------------------------------
\* What the provider may answer.

\* The place of a line item in the balance sheet, to tell the cells apart.
RowCode(row) ==
    CASE row = "Ordinary Shares Number" -> 1
      [] row = "Share Issued" -> 2
      [] row = "Total Debt" -> 3
      [] row = "Long Term Debt" -> 4
      [] row = "Current Debt" -> 5
      [] row = "Preferred Securities Outside Stock Equity" -> 6
      [] OTHER -> 7

\* A cell's value: every cell its own number ("distinct"), or every second
\* cell zero ("zero") or missing ("nan").
CellValue(pattern, row, col) ==
    LET own == Num(Million * (10 * RowCode(row) + col.day) + 345678)
        marked == (RowCode(row) + col.day) % 2 = 0
    IN IF pattern = "zero" /\ marked THEN Num(0)
       ELSE IF pattern = "nan" /\ marked THEN NaN
       ELSE own

\* A balance sheet: line items down, report dates across.
Frame(index, columns, pattern) ==
    [index |-> index, columns |-> columns,
     cells |-> [rc \in index \X columns |-> CellValue(pattern, rc[1], rc[2])]]

\* The report dates a balance sheet may have: midnight of each day given.
ReportDates(days) == {Timestamp(Date(d)) : d \in days}

\* Every balance sheet over the line items and report dates given.
AllFrames(items, dates) ==
    {Frame(I, C, p) : I \in SUBSET items, C \in SUBSET dates,
                      p \in {"distinct", "zero", "nan"}}

\* A close in cents: a fund-like or a NAV-like price, or every second day
\* zero or missing.
ClosePrice(pattern, day) ==
    IF pattern = "nav" THEN Num(1000 + 10 * day)
    ELSE IF pattern = "zero" /\ day % 2 = 0 THEN Num(0)
    ELSE IF pattern = "nan" /\ day % 2 = 0 THEN NaN
    ELSE Num(950 + 10 * day)

\* A ticker's daily bars: one per trading day, all at the same time of day.
Series(days, tod, pattern) ==
    LET index == {[day |-> d, tod |-> tod] : d \in days}
    IN [index |-> index, close |-> [t \in index |-> ClosePrice(pattern, t.day)]]

\* Every series over the days and times of day given.
AllSeries(days, tods) ==
    {Series(D, tod, p) : D \in SUBSET days, tod \in tods,
                         p \in {"fund", "nav", "zero", "nan"}}

\* ticker_obj.info: with and without a longName.
Infos == {[longName |-> "Alpha Fund"], [symbol |-> "FA"]}

\* The answers drawn in a whole run: a full balance sheet; a series with
\* every day and one with none.
RunFrames(items, dates) == {Frame(items, dates, "zero")}

RunSeries(days) == {Series(days, 0, "fund"), Series({}, 0, "fund")}

\* The valuation dates picked in a whole run: the first and the last day.
RunDates == {Date(0), Date(MaxDay)}

---------------------------------------------------------------------------
\* The run behind the "Download NAV Data" button.

\* The loop's locals before an entry's lookups.
NoLocals ==
    /\ fund_name' = ""
    /\ balance' = None
    /\ fundamentals' = None
    /\ shares_millions' = None
    /\ debt_millions' = None
    /\ data' = None
    /\ fund_price' = None
    /\ nav_price' = None

\* The script up to the button: the workbook loaded and filtered, a date picked.
Init ==
    /\ reference \in Tables
    /\ df_tickers = DropNa(reference)
    /\ target_date \in RunDates
    /\ pc = "ready"
    /\ idx = 0
    /\ rows = <<>>
    /\ fund_name = ""
    /\ balance = None
    /\ fundamentals = None
    /\ shares_millions = None
    /\ debt_millions = None
    /\ data = None
    /\ fund_price = None
    /\ nav_price = None

\* The button pressed: the window's dates, rows = [], the loop entered.
Click ==
    /\ pc = "ready"
    /\ rows' = <<>>
    /\ idx' = 1
    /\ pc' = IF Len(df_tickers) = 0 THEN "export" ELSE "info"
    /\ UNCHANGED <<reference, df_tickers, target_date, fund_name, balance,
                   fundamentals, shares_millions, debt_millions, data,
                   fund_price, nav_price>>

\* ticker_obj.info and info.get("longName", fund); a fault leaves the loop.
FetchInfo ==
    /\ pc = "info"
    /\ \E resp \in Infos \cup {Fault} :
         IF resp = Fault
         THEN pc' = "aborted" /\ fund_name' = fund_name
         ELSE /\ fund_name' = DictGet(resp, "longName", df_tickers[idx].Fund)
              /\ pc' = "fundamentals"
    /\ UNCHANGED <<reference, df_tickers, target_date, idx, rows, balance,
                   fundamentals, shares_millions, debt_millions, data,
                   fund_price, nav_price>>

\* get_fundamentals_asof(fund, target_date) and the scaling to millions, the
\* provider answering resp; an exception leaving the call leaves the loop.
GetFundamentalsOn(resp) ==
    /\ pc = "fundamentals"
    /\ LET got == get_fundamentals_asof(resp, target_date) IN
       /\ balance' = resp
       /\ IF got = Raised
          THEN /\ pc' = "aborted"
               /\ UNCHANGED <<fundamentals, shares_millions, debt_millions>>
          ELSE /\ fundamentals' = got
               /\ shares_millions' = ScaleMillions(got.shares_outstanding)
               /\ debt_millions' = ScaleMillions(got.total_debt)
               /\ pc' = "fund_price"
    /\ UNCHANGED <<reference, df_tickers, target_date, idx, rows, fund_name,
                   data, fund_price, nav_price>>

\* fund_price = get_close_price(fund, date_str, start_date, end_date), the
\* provider answering resp.
FundPriceOn(resp) ==
    /\ pc = "fund_price"
    /\ LET got == get_close_price(resp, date_str, start_date, end_date) IN
       /\ data' = resp
       /\ IF got = Raised
          THEN pc' = "aborted" /\ fund_price' = fund_price
          ELSE fund_price' = got /\ pc' = "nav_price"
    /\ balance' = None
    /\ UNCHANGED <<reference, df_tickers, target_date, idx, rows, fund_name,
                   fundamentals, shares_millions, debt_millions, nav_price>>

\* nav_price = get_close_price(nav, date_str, start_date, end_date), the
\* provider answering resp.
NavPriceOn(resp) ==
    /\ pc = "nav_price"
    /\ LET got == get_close_price(resp, date_str, start_date, end_date) IN
       /\ data' = resp
       /\ IF got = Raised
          THEN pc' = "aborted" /\ nav_price' = nav_price
          ELSE nav_price' = got /\ pc' = "append"
    /\ UNCHANGED <<reference, df_tickers, target_date, idx, rows, fund_name,
                   balance, fundamentals, shares_millions, debt_millions,
                   fund_price>>

\* The row appended to rows.
NewRow(e) ==
    [FundName |-> fund_name, BroadCategory |-> e.BroadCategory,
     FundType |-> e.FundType, Subcategory |-> e.Subcategory,
     Region |-> e.Region, Date |-> date_str,
     FundTicker |-> e.Fund, FundClose |-> fund_price,
     NavTicker |-> e.NAV, NavClose |-> nav_price,
     Discount |-> Discount(fund_price, nav_price),
     SharesM |-> shares_millions, DebtM |-> debt_millions]

\* discount, rows.append([...]), the progress bar, the next entry.
AppendRow ==
    /\ pc = "append"
    /\ rows' = Append(rows, NewRow(df_tickers[idx]))
    /\ idx' = idx + 1
    /\ pc' = IF idx = Len(df_tickers) THEN "export" ELSE "info"
    /\ NoLocals
    /\ UNCHANGED <<reference, df_tickers, target_date>>

\* The DataFrame, the workbook with its provenance line, the success banner.
Export ==
    /\ pc = "export"
    /\ pc' = "done"
    /\ UNCHANGED <<reference, df_tickers, target_date, idx, rows, fund_name,
                   balance, fundamentals, shares_millions, debt_millions, data,
                   fund_price, nav_price>>

\* The lookups of a whole run.
GetFundamentals ==
    /\ pc = "fundamentals"
    /\ \E resp \in RunFrames(LineItems, ReportDates(Days)) \cup {Fault} :
         GetFundamentalsOn(resp)

FundPrice ==
    /\ pc = "fund_price"
    /\ \E resp \in RunSeries(Days) \cup {Fault} : FundPriceOn(resp)

NavPrice ==
    /\ pc = "nav_price"
    /\ \E resp \in RunSeries(Days) \cup {Fault} : NavPriceOn(resp)

Next ==
    \/ Click
    \/ FetchInfo
    \/ GetFundamentals
    \/ FundPrice
    \/ NavPrice
    \/ AppendRow
    \/ Export

Spec == Init /\ [][Next]_vars

---------------------------------------------------------------------------
\* get_fundamentals_asof over every balance sheet and as-of date: the loop at
\* its call for a single entry.

InitFundamentals ==
    /\ reference = <<Entry("FA", "NA", "Equity")>>
    /\ df_tickers = DropNa(reference)
    /\ target_date \in {Date(d) : d \in Days}
    /\ pc = "fundamentals"
    /\ idx = 1
    /\ rows = <<>>
    /\ fund_name = "FA"
    /\ balance = None
    /\ fundamentals = None
    /\ shares_millions = None
    /\ debt_millions = None
    /\ data = None
    /\ fund_price = None
    /\ nav_price = None

GetFundamentalsAnyFrame ==
    /\ pc = "fundamentals"
    /\ \E resp \in AllFrames(LineItems, ReportDates(Days)) \cup {Fault} :
         GetFundamentalsOn(resp)

NextFundamentals == GetFundamentalsAnyFrame

SpecFundamentals == InitFundamentals /\ [][NextFundamentals]_vars

---------------------------------------------------------------------------
\* get_close_price over every series and target date, and the discount: the
\* loop from its first price lookup for a single entry.

InitClose ==
    /\ reference = <<Entry("FA", "NA", "Equity")>>
    /\ df_tickers = DropNa(reference)
    /\ target_date \in {Date(d) : d \in Days}
    /\ pc = "fund_price"
    /\ idx = 1
    /\ rows = <<>>
    /\ fund_name = "FA"
    /\ balance = Frame({}, {}, "distinct")
    /\ fundamentals = AllNone
    /\ shares_millions = None
    /\ debt_millions = None
    /\ data = None
    /\ fund_price = None
    /\ nav_price = None

FundPriceAnySeries ==
    /\ pc = "fund_price"
    /\ \E resp \in AllSeries(Days, TimesOfDay) \cup {Fault} : FundPriceOn(resp)

NavPriceAnySeries ==
    /\ pc = "nav_price"
    /\ \E resp \in AllSeries(Days, TimesOfDay) \cup {Fault} : NavPriceOn(resp)

NextClose ==
    \/ FundPriceAnySeries
    \/ NavPriceAnySeries
    \/ AppendRow
    \/ Export

SpecClose == InitClose /\ [][NextClose]_vars

---------------------------------------------------------------------------
\* Properties.

\* The loop has returned from get_fundamentals_asof with a result.
FundamentalsReturned == pc = "fund_price" /\ balance # Fault /\ balance # None

\* A report was selected.
ReportSelected == FundamentalsReturned /\ fundamentals.report_date # None

\* The value of line item row in the selected report.
InReport(row) == balance.cells[<<row, fundamentals.report_date>>]

\* C1: no row-level error aborts the batch: whatever the provider answers
\* during an entry's lookups, the run never stops short of completion, and a
\* completed run holds one row per entry.
C1_NoRowErrorAbortsBatch ==
    /\ pc # "aborted"
    /\ pc = "done" => Len(rows) = Len(df_tickers)

\* C2: in every row the discount is absent when either price is absent, and
\* is fund_price / nav_price for every numeric fund price and every numeric
\* NAV price that can divide it.
C2_DiscountIffBothPrices ==
    \A i \in DOMAIN rows :
      LET r == rows[i] IN
      /\ (r.FundClose = None \/ r.NavClose = None) => r.Discount = None
      /\ (r.FundClose.k = "num" /\ r.NavClose.k = "num" /\ r.NavClose.v # 0)
           => /\ r.Discount.k = "ratio"
              /\ r.Discount.n * r.NavClose.v = r.Discount.d * r.FundClose.v

ScaledFrom(x, s) ==
    /\ (s = None) <=> (x = None)
    /\ x.k = "num" =>
         /\ s.k = "num"
         /\ LET unit == Million \div Pow10(Decimals)
                err == s.v * unit - x.v
            IN 2 * err <= unit /\ 2 * (0 - err) <= unit

\* C4: shares_outstanding and total_debt are scaled to millions and rounded to
\* 2 decimal places whenever present, and the scaled field is absent exactly
\* when the resolved value is.
C4_ScaledWhenPresent ==
    FundamentalsReturned =>
      /\ ScaledFrom(fundamentals.shares_outstanding, shares_millions)
      /\ ScaledFrom(fundamentals.total_debt, debt_millions)

\* C5: no look-ahead: a returned report_date is one of the balance sheet's
\* report dates, is not after as_of_date, is the latest such date, and every
\* returned value is that report's value of a candidate line item (or the
\* field's default).
C5_NoLookAhead ==
    ReportSelected =>
      LET rd == fundamentals.report_date
          as_of == Timestamp(target_date)
          From(names, default) ==
            {default} \cup {InReport(r) : r \in Range(names) \cap balance.index}
      IN /\ rd \in balance.columns
         /\ TsLeq(rd, as_of)
         /\ \A d \in balance.columns : TsLeq(d, as_of) => TsLeq(d, rd)
         /\ fundamentals.shares_outstanding \in From(SharesRows, None)
         /\ fundamentals.total_debt \in From(DebtRows, None)
         /\ fundamentals.outside_equity \in From(EquityRows, Num(0))

\* A later report exists, an earlier one too, and the values returned are
\* those of the latest report not after the as-of date.
C5_Witness ==
    /\ ReportSelected
    /\ \E d \in balance.columns : TsLt(Timestamp(target_date), d)
    /\ \E d \in balance.columns : TsLt(d, fundamentals.report_date)
    /\ fundamentals.shares_outstanding.k = "num"
    /\ fundamentals.total_debt.k = "num"

\* The close get_close_price owes for the provider's answer resp.
ExactDayClose(resp, price) ==
    LET onDay == {t \in resp.index : t.day = target_date.day} IN
    IF onDay = {} THEN price = None
    ELSE \A t \in onDay : price = resp.close[t]

\* C6: get_close_price returns the close of the exact target calendar day
\* when the series has it, and absent otherwise, never another day's close.
C6_ExactDayClose ==
    /\ (pc = "nav_price" /\ data # Fault) => ExactDayClose(data, fund_price)
    /\ (pc = "append" /\ data # Fault) => ExactDayClose(data, nav_price)

\* The series has the target day, at a time of day other than midnight, and
\* other days of the window with other closes; the target day's was returned.
C6_Witness ==
    /\ pc = "nav_price"
    /\ data # Fault
    /\ \E t \in data.index :
         /\ t.day = target_date.day
         /\ t.tod # 0
         /\ fund_price = data.close[t]
         /\ \E u \in data.index :
              u.day = target_date.day + 1 /\ data.close[u] # data.close[t]

\* The series has days of the window but not the target day: absent.
C6_WitnessAbsent ==
    /\ pc = "nav_price"
    /\ data # Fault
    /\ \E u \in data.index : u.day = target_date.day - 1
    /\ \A u \in data.index : u.day # target_date.day
    /\ fund_price = None

\* C7: a provider fault during a price lookup becomes an absent price: the
\* lookup never ends the run, and the rows accumulated so far are unchanged.
C7_PriceFaultAbsorbed ==
    [][(pc \in {"fund_price", "nav_price"}) =>
         /\ rows' = rows
         /\ pc' # "aborted"
         /\ (data' = Fault /\ pc = "fund_price") => fund_price' = None
         /\ (data' = Fault /\ pc = "nav_price") => nav_price' = None]_vars

\* A NAV price lookup has faulted with a row already accumulated, and the
\* loop goes on with an absent price.
C7_Witness ==
    /\ pc = "append"
    /\ data = Fault
    /\ nav_price = None
    /\ Len(rows) >= 1

Complete == {i \in DOMAIN reference :
               reference[i].Fund # NaNCell /\ reference[i].NAV # NaNCell}

\* The place in the reference table of the k-th complete entry.
KthComplete(k) ==
    CHOOSE i \in Complete : Cardinality({j \in Complete : j < i}) = k - 1

\* Row r is the row of entry e.
RowOf(r, e) ==
    /\ r.FundTicker = e.Fund
    /\ r.NavTicker = e.NAV
    /\ r.FundType = e.FundType
    /\ r.Subcategory = e.Subcategory
    /\ r.BroadCategory = e.BroadCategory
    /\ r.Region = e.Region

\* C9: the report holds one row for each reference entry with both tickers,
\* none for the others, in the reference table's order, each with its own
\* entry's tickers and categories.
C9_OneRowPerCompleteEntry ==
    /\ Len(rows) <= Cardinality(Complete)
    /\ \A k \in DOMAIN rows : RowOf(rows[k], reference[KthComplete(k)])
    /\ pc = "done" => Len(rows) = Cardinality(Complete)

\* A finished report of two different rows from a table that also held an
\* incomplete entry.
C9_Witness ==
    /\ pc = "done"
    /\ Len(rows) = 2
    /\ rows[1].FundTicker # rows[2].FundTicker
    /\ Len(reference) > Len(rows)
    /\ reference[1].NAV = NaNCell

\* A finished report of two different rows, in the table's order.
C9_WitnessOrder ==
    /\ pc = "done"
    /\ Len(rows) = 2
    /\ rows[1].FundTicker = "FB"
    /\ rows[2].FundTicker = "FA"

\* C10: when every report is dated after the as-of date, or there is no
\* report at all, every field is absent, outside_equity included.
C10_AllAbsentBeforeFirstReport ==
    (/\ FundamentalsReturned
     /\ \/ balance.index = {}
        \/ \A d \in balance.columns : TsLt(Timestamp(target_date), d))
    => /\ fundamentals.shares_outstanding = None
       /\ fundamentals.total_debt = None
       /\ fundamentals.outside_equity = None
       /\ fundamentals.report_date = None

\* Reports exist, with the outside equity line item, all after the as-of date.
C10_Witness ==
    /\ FundamentalsReturned
    /\ balance.columns # {}
    /\ "Preferred Securities Outside Stock Equity" \in balance.index
    /\ \A d \in balance.columns : TsLt(Timestamp(target_date), d)
    /\ fundamentals.outside_equity = None
    /\ fundamentals.report_date = None

====
